---- MODULE Spec2Model ----
(***************************************************************************)
(* Model of the operational substrate of the assistant backend:            *)
(*   - AuthMiddleware.check_rate_limit and its helpers                     *)
(*     (backend/api/auth/auth_middleware.py), over the two Supabase tables *)
(*     ip_blocklist and rate_limits;                                       *)
(*   - CacheManager (backend/api/endpoints/performance.py).                *)
(* Time is in seconds.  `now` is the UTC clock (datetime.utcnow() and      *)
(* datetime.now(timezone.utc)); datetime.now() is the server's local time, *)
(* now + tz_offset.                                                        *)
(***************************************************************************)
EXTENDS Integers, Sequences, FiniteSets, Bags, TLC

VARIABLES
    now,            \* UTC clock, seconds
    ticks,          \* number of clock advances so far (bounds the run)
    tz_offset,      \* local time minus UTC of the server process, seconds
    ip_blocklist,   \* table ip_blocklist: a set of rows, keyed by ip_address
    rate_limits,    \* table rate_limits: a bag of rows
    rl_result,      \* outcome and locals of the check_rate_limit call just made
    rl_exceeded,    \* history: per ip, the latest "Rate limit exceeded" rejection
    iron_available, \* CacheManager.iron_available: the external cache is configured
    memory_cache,   \* CacheManager.memory_cache: key -> [value, expires_at]
    key_registry,   \* CacheManager.key_registry: set of keys
    iron_store,     \* the external cache service: key -> [value, expires_at]
    cache_result,   \* the CacheManager call just made and how it ended
    cache_sets,     \* history: per key, the latest set not followed by a removal
    services,       \* LoadBalancer.services: service_name -> registration
    active_connections, \* LoadBalancer.active_connections: service_name -> instance -> count
    lb_calls,       \* history: per service, the instances get_next_instance returned
                    \* since its registration, in order
    hc,             \* the health_check coroutine in flight, suspended between probes
    lb_result,      \* the LoadBalancer call (or probe) just made and what it returned
    rl_procs,       \* the check_rate_limit coroutines in flight, suspended on a store call
    twin,           \* a second LoadBalancer that receives the same calls
    http_result,    \* the response of the HTTP handler that just ran
    webhook_configs, \* table webhook_configs: a set of rows
    webhook_events, \* table webhook_events: a set of rows
    wh_resent,      \* history: per event id, the re-sends retry_failed_webhooks made
    connections,    \* ConnectionManager.active_connections: workspace_id -> list
    broadcast       \* the broadcast_to_workspace call just made and what it did

clock_vars == <<now, ticks>>
rl_vars == <<tz_offset, ip_blocklist, rate_limits, rl_result, rl_exceeded>>
cache_vars == <<iron_available, memory_cache, key_registry, iron_store,
                cache_result, cache_sets>>
lb_vars == <<services, active_connections, lb_calls, hc, lb_result>>
wh_vars == <<webhook_configs, webhook_events, wh_resent>>
ws_vars == <<connections, broadcast>>
\* the variables only the interleaved rate limiter, the webhooks and the
\* connection manager change
side_vars == <<rl_procs, wh_vars, ws_vars>>
vars == <<now, ticks, tz_offset, ip_blocklist, rate_limits, rl_result, rl_exceeded,
          iron_available, memory_cache, key_registry, iron_store,
          cache_result, cache_sets,
          services, active_connections, lb_calls, hc, lb_result,
          rl_procs, twin, http_result, webhook_configs, webhook_events, wh_resent,
          connections, broadcast>>

(***************************************************************************)
(* Bounds of the model.                                                    *)
(***************************************************************************)
MaxTicks == 2
MaxRecords == 4

NoClient == "None"

\* request.client.host values; a request without client maps to 'unknown'
Clients == {"10.0.0.1", NoClient}
\* outages are explored for one client
OutageClients == {"10.0.0.1"}
IPs == {"10.0.0.1", "unknown"}
\* endpoints passed by the route handlers; "/auth/guest/chat" has no entry
\* in RATE_LIMITS and resolves to the default policy
Endpoints == {"/auth/reset-password", "/auth/guest/chat"}
\* server time zones: one hour behind UTC, UTC, seven hours ahead of UTC
TzOffsets == {0 - 3600, 0, 25200}
\* amounts the clock advances by
RLAdvances == {1, 3600, 86399}

\* the calls check_rate_limit makes to the store; each may raise
BlocklistCalls == {"ip_blocklist.select", "ip_blocklist.delete", "ip_blocklist.upsert"}
RateLimitsCalls == {"rate_limits.select", "rate_limits.insert"}
StoreCalls == BlocklistCalls \cup RateLimitsCalls
\* outages: none, one table unreachable, the whole store unreachable
FailureModes == {{}, BlocklistCalls, RateLimitsCalls, StoreCalls}

(***************************************************************************)
(* Configuration (backend/config/firebase_config.py).                      *)
(***************************************************************************)
RATE_LIMITS ==
    ("/auth/register" :> [requests |-> 5, window |-> 3600]) @@
    ("/auth/login" :> [requests |-> 10, window |-> 300]) @@
    ("/auth/reset-password" :> [requests |-> 3, window |-> 3600]) @@
    ("/auth/2fa/verify" :> [requests |-> 5, window |-> 300]) @@
    ("/chat/general" :> [requests |-> 100, window |-> 3600]) @@
    ("/chat/general/guest" :> [requests |-> 10, window |-> 3600]) @@
    ("default" :> [requests |-> 100, window |-> 3600])

ip_block_duration == 86400

\* RATE_LIMITS.get(endpoint_str, RATE_LIMITS['default'])
rate_limit_for(endpoint) ==
    IF endpoint \in DOMAIN RATE_LIMITS THEN RATE_LIMITS[endpoint]
    ELSE RATE_LIMITS["default"]

\* datetime.utcnow() / datetime.now(timezone.utc)
utcnow == now
\* datetime.now(): naive local time
localnow == now + tz_offset

(***************************************************************************)
(* Store helpers.                                                          *)
(***************************************************************************)
RECURSIVE SumCount(_, _)
\* sum(item['count'] for item in res.data) over the selected rows of a bag
SumCount(rows, table) ==
    IF rows = {} THEN 0
    ELSE LET r == CHOOSE x \in rows : TRUE
         IN  r.count * CopiesIn(r, table) + SumCount(rows \ {r}, table)

\* res.data of ip_blocklist.select('*').eq('ip_address', ip_address)
blocklist_rows(blocklist, ip_address) == {b \in blocklist : b.ip_address = ip_address}

\* is_ip_blocked with the comparison of blocked_until inverted
is_ip_blocked_inverted(blocklist, ip_address, fails) ==
    IF "ip_blocklist.select" \in fails
    THEN [blocked |-> FALSE, blocklist |-> blocklist]
    ELSE IF blocklist_rows(blocklist, ip_address) # {}
    THEN LET block_data == CHOOSE b \in blocklist_rows(blocklist, ip_address) : TRUE
         IN  IF block_data.blocked_until < utcnow
             THEN [blocked |-> TRUE, blocklist |-> blocklist]
             ELSE IF "ip_blocklist.delete" \in fails
                  THEN [blocked |-> FALSE, blocklist |-> blocklist]
                  ELSE [blocked |-> FALSE,
                        blocklist |-> blocklist \ blocklist_rows(blocklist, ip_address)]
    ELSE [blocked |-> FALSE, blocklist |-> blocklist]

\* is_ip_blocked answering True when the lookup raises
is_ip_blocked_fail_closed(blocklist, ip_address, fails) ==
    IF "ip_blocklist.select" \in fails
    THEN [blocked |-> TRUE, blocklist |-> blocklist]
    ELSE IF blocklist_rows(blocklist, ip_address) # {}
    THEN LET block_data == CHOOSE b \in blocklist_rows(blocklist, ip_address) : TRUE
         IN  IF block_data.blocked_until > utcnow
             THEN [blocked |-> TRUE, blocklist |-> blocklist]
             ELSE IF "ip_blocklist.delete" \in fails
                  THEN [blocked |-> FALSE, blocklist |-> blocklist]
                  ELSE [blocked |-> FALSE,
                        blocklist |-> blocklist \ blocklist_rows(blocklist, ip_address)]
    ELSE [blocked |-> FALSE, blocklist |-> blocklist]

\* is_ip_blocked leaving an expired block in the table
is_ip_blocked_keeps_expired(blocklist, ip_address, fails) ==
    IF "ip_blocklist.select" \in fails
    THEN [blocked |-> FALSE, blocklist |-> blocklist]
    ELSE IF blocklist_rows(blocklist, ip_address) # {}
    THEN LET block_data == CHOOSE b \in blocklist_rows(blocklist, ip_address) : TRUE
         IN  [blocked |-> block_data.blocked_until > utcnow, blocklist |-> blocklist]
    ELSE [blocked |-> FALSE, blocklist |-> blocklist]

\* is_ip_blocked: [blocked, blocklist after the call]
is_ip_blocked(blocklist, ip_address, fails) ==
    IF "ip_blocklist.select" \in fails
    THEN [blocked |-> FALSE, blocklist |-> blocklist]
    ELSE IF blocklist_rows(blocklist, ip_address) # {}
    THEN LET block_data == CHOOSE b \in blocklist_rows(blocklist, ip_address) : TRUE
         IN  IF block_data.blocked_until > utcnow
             THEN [blocked |-> TRUE, blocklist |-> blocklist]
             ELSE \* remove expired block
                  IF "ip_blocklist.delete" \in fails
                  THEN [blocked |-> FALSE, blocklist |-> blocklist]
                  ELSE [blocked |-> FALSE,
                        blocklist |-> blocklist \ blocklist_rows(blocklist, ip_address)]
    ELSE [blocked |-> FALSE, blocklist |-> blocklist]

\* block_ip blocking until the window's end instead of ip_block_duration
block_ip_short(blocklist, ip_address, reason, fails) ==
    IF "ip_blocklist.upsert" \in fails
    THEN blocklist
    ELSE (blocklist \ blocklist_rows(blocklist, ip_address)) \cup
            {[ip_address |-> ip_address,
              reason |-> reason,
              blocked_until |-> utcnow + RATE_LIMITS["default"].window,
              created_at |-> utcnow]}

\* block_ip: the blocklist after the upsert (ip_address is the table's key)
block_ip(blocklist, ip_address, reason, fails) ==
    IF "ip_blocklist.upsert" \in fails
    THEN blocklist
    ELSE (blocklist \ blocklist_rows(blocklist, ip_address)) \cup
            {[ip_address |-> ip_address,
              reason |-> reason,
              blocked_until |-> utcnow + ip_block_duration,
              created_at |-> utcnow]}

\* get_rate_limit_count
get_rate_limit_count(table, ip_address, endpoint, window_start, fails) ==
    IF "rate_limits.select" \in fails
    THEN 0
    ELSE SumCount({r \in BagToSet(table) :
                      /\ r.ip_address = ip_address
                      /\ r.endpoint = endpoint
                      /\ r.created_at >= window_start}, table)

\* increment_rate_limit: the table after the insert
increment_rate_limit(table, ip_address, endpoint, fails) ==
    IF "rate_limits.insert" \in fails
    THEN table
    ELSE table (+) SetToBag({[ip_address |-> ip_address, endpoint |-> endpoint,
                              count |-> 1, created_at |-> utcnow]})

\* request.client.host if request.client else 'unknown'
client_host(client) == IF client = NoClient THEN "unknown" ELSE client

(***************************************************************************)
(* check_rate_limit(request, endpoint): one call, as one step.  `fails` is *)
(* the set of store calls that raise during this call.                     *)
(***************************************************************************)
check_rate_limit(client, endpoint, fails) ==
    LET ip_address == client_host(client)
        chk == is_ip_blocked(ip_blocklist, ip_address, fails)
        rate_limit == rate_limit_for(endpoint)
        max_requests == rate_limit.requests
        window_start == localnow - rate_limit.window
        current_count ==
            get_rate_limit_count(rate_limits, ip_address, endpoint, window_start, fails)
        call == [ip |-> ip_address, endpoint |-> endpoint, fails |-> fails]
    IN  /\ BagCardinality(rate_limits) < MaxRecords
        /\ IF chk.blocked
           THEN \* raise HTTPException(429, "IP address blocked")
                /\ ip_blocklist' = chk.blocklist
                /\ rl_result' = call @@ [returned |-> FALSE,
                                         detail |-> "IP address blocked",
                                         current_count |-> 0 - 1]
                /\ UNCHANGED <<rate_limits, rl_exceeded>>
           ELSE IF current_count >= max_requests
           THEN \* block the ip, raise HTTPException(429, "Rate limit exceeded")
                /\ ip_blocklist' =
                       block_ip(chk.blocklist, ip_address, "rate_limit_exceeded", fails)
                /\ rl_result' = call @@ [returned |-> FALSE,
                                         detail |-> "Rate limit exceeded",
                                         current_count |-> current_count]
                /\ rl_exceeded' = {x \in rl_exceeded : x.ip # ip_address} \cup
                                      {[ip |-> ip_address, endpoint |-> endpoint, at |-> now]}
                /\ UNCHANGED rate_limits
           ELSE /\ ip_blocklist' = chk.blocklist
                /\ rate_limits' =
                       increment_rate_limit(rate_limits, ip_address, endpoint, fails)
                /\ rl_result' = call @@ [returned |-> TRUE,
                                         detail |-> "",
                                         current_count |-> current_count]
                /\ UNCHANGED rl_exceeded
        /\ UNCHANGED <<clock_vars, tz_offset, cache_vars, lb_vars>>
        /\ UNCHANGED <<side_vars, twin, http_result>>

\* no check_rate_limit call since the clock last advanced
NoCall == [ip |-> "", endpoint |-> "", fails |-> {},
           returned |-> FALSE, detail |-> "", current_count |-> 0 - 1]

(***************************************************************************)
(* CacheManager (backend/api/endpoints/performance.py).                    *)
(* Strings that are searched are sequences of characters.                  *)
(***************************************************************************)
None == "None"

\* cache keys: "u1p", "u1s", "u2p"
Keys == {<<"u", "1", "p">>, <<"u", "1", "s">>, <<"u", "2", "p">>}
\* tags: "u1", "p", ""
Tags == {<<"u", "1">>, <<"p">>, <<>>}
Values == {"v1", "v2"}
TTLs == {0, 2}
CacheAdvances == {1}
\* outages of the external service are explored with one value and one ttl
OutageValues == {"v1"}
OutageTTLs == {2}

\* key.startswith(tag) in place of `tag in key`
IsPrefix(tag, key) == Len(tag) <= Len(key) /\ SubSeq(key, 1, Len(tag)) = tag

\* the loop without its test `tag in key`
IsAnything(tag, key) == TRUE

\* Python's `tag in key` on strings
IsSubstring(tag, key) ==
    \E i \in 0..(Len(key) - Len(tag)) : SubSeq(key, i + 1, i + Len(tag)) = tag

\* Python values that JSON writes as the same array: a tuple and a list
PyTuple == "(1, 2)"
PyList == "[1, 2]"
\* the payloads of the runs that compare the backing stores
Payloads == {"v1", PyTuple}

\* json.dumps: a str is written as a JSON string, a tuple and a list as an array
json_dumps(value) == <<"json", IF value = PyTuple THEN PyList ELSE value>>
\* json.loads: a JSON string is read as a str, an array as a list
json_loads(text) == text[2]

\* a pop that empties the dict
dict_pop_all(d, key) == [k \in {} |-> d[k]]

\* dict.pop(key, None)
dict_pop(d, key) == [k \in DOMAIN d \ {key} |-> d[k]]
\* an assignment that keeps the entry a key already has
dict_put_keep(d, key, entry) == d @@ (key :> entry)

\* d[key] = entry
dict_put(d, key, entry) == (key :> entry) @@ d
EmptyDict == [k \in {} |-> None]

\* the external service: put with expires_in, get of a live item, delete
iron_put(store, key, text, ttl) ==
    dict_put(store, key, [value |-> text, expires_at |-> utcnow + ttl])
iron_live(store, key) == key \in DOMAIN store /\ store[key].expires_at > utcnow
iron_delete(store, key) == dict_pop(store, key)

\* CacheManager.get counting an entry as live at the instant it expires
cache_get_inclusive(key, fail) ==
    IF iron_available
    THEN IF fail
         THEN [value |-> None, raised |-> FALSE]
         ELSE IF iron_live(iron_store, key)
              THEN [value |-> json_loads(iron_store[key].value), raised |-> FALSE]
              ELSE [value |-> None, raised |-> FALSE]
    ELSE IF key \in DOMAIN memory_cache /\ memory_cache[key].expires_at >= utcnow
         THEN [value |-> memory_cache[key].value, raised |-> FALSE]
         ELSE [value |-> None, raised |-> FALSE]

\* CacheManager.get without its try/except
cache_get_unguarded(key, fail) ==
    IF iron_available
    THEN IF fail
         THEN [value |-> None, raised |-> TRUE]
         ELSE IF iron_live(iron_store, key)
              THEN [value |-> json_loads(iron_store[key].value), raised |-> FALSE]
              ELSE [value |-> None, raised |-> FALSE]
    ELSE IF key \in DOMAIN memory_cache /\ memory_cache[key].expires_at > utcnow
         THEN [value |-> memory_cache[key].value, raised |-> FALSE]
         ELSE [value |-> None, raised |-> FALSE]

\* CacheManager.get: the value returned and whether the call raised
cache_get(key, fail) ==
    IF iron_available
    THEN IF fail
         THEN [value |-> None, raised |-> FALSE]   \* except Exception: return None
         ELSE IF iron_live(iron_store, key)
              THEN [value |-> json_loads(iron_store[key].value), raised |-> FALSE]
              ELSE [value |-> None, raised |-> FALSE]
    ELSE IF key \in DOMAIN memory_cache /\ memory_cache[key].expires_at > utcnow
         THEN [value |-> memory_cache[key].value, raised |-> FALSE]
         ELSE [value |-> None, raised |-> FALSE]

\* the record of a CacheManager call: its arguments, what it returned, whether
\* it raised, whether a call to the external service raised during it, and (for
\* the history) the state of the key before a set and the keys a loop removed
CacheCall(op, key, value, raised, failed, before, removed) ==
    [op |-> op, key |-> key, value |-> value, raised |-> raised, failed |-> failed,
     before |-> before, removed |-> removed]

NoOp == CacheCall("", <<>>, None, FALSE, FALSE, <<>>, {})

\* cache_manager.get(key) as a caller sees it
cache_manager_get(key, fail) ==
    /\ fail => iron_available
    /\ cache_result' = CacheCall("get", key, cache_get(key, fail).value,
                                 cache_get(key, fail).raised, fail, <<>>, {})
    /\ UNCHANGED <<iron_available, memory_cache, key_registry, iron_store, cache_sets>>
    /\ UNCHANGED <<clock_vars, rl_vars, lb_vars>>
    /\ UNCHANGED <<side_vars, twin>>

CacheGet(key, fail) == cache_manager_get(key, fail) /\ UNCHANGED http_result

\* the entry CacheManager.set stores in memory_cache
memory_entry(value, ttl) == [value |-> value, expires_at |-> utcnow + ttl]

\* history: the state of the key before a call, and the value it holds
KeyState(key) ==
    LET d == IF iron_available THEN iron_store ELSE memory_cache
    IN  IF key \notin DOMAIN d THEN <<"absent">>
        ELSE IF d[key].expires_at > now THEN <<"live", d[key].value>>
        ELSE <<"expired", d[key].value>>

CacheSet(key, value, ttl, fail) ==
    /\ fail => iron_available
    /\ IF iron_available
       THEN IF fail
            THEN \* client.put raised: key_registry.add is skipped
                 UNCHANGED <<iron_store, key_registry>>
            ELSE /\ iron_store' = iron_put(iron_store, key, json_dumps(value), ttl)
                 /\ key_registry' = key_registry \cup {key}
       ELSE /\ UNCHANGED iron_store
            /\ key_registry' = key_registry \cup {key}
    /\ memory_cache' = IF iron_available THEN memory_cache
                       ELSE dict_put(memory_cache, key, memory_entry(value, ttl))
    \* except Exception: print
    /\ cache_result' = CacheCall("set", key, None, FALSE, fail, KeyState(key), {})
    /\ cache_sets' = IF fail THEN cache_sets
                      ELSE {x \in cache_sets : x.key # key} \cup
                              {[key |-> key, value |-> value, at |-> now, ttl |-> ttl]}
    /\ UNCHANGED <<iron_available, clock_vars, rl_vars, lb_vars>>
    /\ UNCHANGED <<side_vars, twin, http_result>>

CacheDelete(key, fail) ==
    /\ fail => iron_available
    /\ IF iron_available
       THEN /\ iron_store' = IF fail THEN iron_store ELSE iron_delete(iron_store, key)
            /\ UNCHANGED memory_cache
       ELSE /\ memory_cache' = dict_pop(memory_cache, key)
            /\ UNCHANGED iron_store
    \* except Exception: print
    /\ cache_result' = CacheCall("delete", key, None, FALSE, fail, <<>>, {})
    /\ cache_sets' = IF fail THEN cache_sets ELSE {x \in cache_sets : x.key # key}
    /\ UNCHANGED <<iron_available, key_registry, clock_vars, rl_vars, lb_vars>>
    /\ UNCHANGED <<side_vars, twin, http_result>>

\* list(self.key_registry): the registered keys in some iteration order
Orders(S) ==
    {f \in [1..Cardinality(S) -> S] : \A i, j \in 1..Cardinality(S) : i # j => f[i] # f[j]}

\* CacheManager.list_keys: the client has no list_keys, the registry is listed
list_keys == Orders(key_registry)

RECURSIVE remove_loop(_, _, _)
\* the body of the loops of invalidate_by_tag and clear_all over the keys to
\* remove; the failAt-th client.delete raises and the exception leaves the loop
remove_loop(keys, st, failAt) ==
    IF keys = <<>> \/ st.raised
    THEN st
    ELSE LET key == Head(keys)
         IN  IF iron_available
             THEN IF st.calls + 1 = failAt
                  THEN [st EXCEPT !.raised = TRUE]
                  ELSE remove_loop(Tail(keys),
                                   [st EXCEPT !.store = iron_delete(@, key),
                                              !.calls = @ + 1,
                                              !.removed = @ \cup {key}],
                                   failAt)
             ELSE remove_loop(Tail(keys),
                              [st EXCEPT !.memory = dict_pop(@, key),
                                         !.registry = @ \ {key},
                                         !.removed = @ \cup {key}],
                              failAt)

loop_start == [memory |-> memory_cache, registry |-> key_registry, store |-> iron_store,
               calls |-> 0, removed |-> {}, raised |-> FALSE]

\* for key in keys: if tag in key: ...
tagged(keys, tag) == SelectSeq(keys, LAMBDA key : IsSubstring(tag, key))
invalidate_by_tag(keys, tag, failAt) == remove_loop(tagged(keys, tag), loop_start, failAt)

\* a loop that stops after the first key
clear_all_first(keys, failAt) ==
    remove_loop(SubSeq(keys, 1, IF Len(keys) > 0 THEN 1 ELSE 0), loop_start, failAt)

\* for key in keys: ...
clear_all(keys, failAt) == remove_loop(keys, loop_start, failAt)

CacheLoopDone(op, arg, st) ==
    /\ memory_cache' = st.memory
    /\ key_registry' = st.registry
    /\ iron_store' = st.store
    \* no try/except: an exception of client.delete reaches the caller
    /\ cache_result' = CacheCall(op, arg, None, st.raised, st.raised, <<>>, st.removed)
    /\ cache_sets' = {x \in cache_sets : x.key \notin st.removed}
    /\ UNCHANGED <<iron_available, clock_vars, rl_vars, lb_vars>>
    /\ UNCHANGED <<side_vars, twin, http_result>>

CacheInvalidate(tag, keys, failAt) ==
    /\ keys \in list_keys
    /\ failAt > 0 => iron_available
    /\ CacheLoopDone("invalidate_by_tag", tag, invalidate_by_tag(keys, tag, failAt))

CacheClearAll(keys, failAt) ==
    /\ keys \in list_keys
    /\ failAt > 0 => iron_available
    /\ CacheLoopDone("clear_all", <<>>, clear_all(keys, failAt))

(***************************************************************************)
(* The load balancer (LoadBalancer).                                       *)
(***************************************************************************)
\* at most MaxCalls get_next_instance calls since the registrations in force
MaxCalls == 4

ServiceNames == {"api", "db"}
\* a service name that is never registered
UnknownService == "ghost"
\* an instance address that is never registered
UnknownInstance == "Z"
\* the lists of instance addresses a caller registers (LoadBalancerConfig.instances)
InstanceLists == {<<>>, <<"B", "A">>, <<"A", "B", "C">>}
SmallInstanceLists == {<<>>, <<"D">>}
\* LoadBalancerConfig.load_balancing_algorithm
Algorithms == {"round_robin", "least_connections", "weighted"}
\* the registrations the callers make: service_name, instances, algorithm
Registrations ==
    ({"api"} \X InstanceLists \X Algorithms) \cup
    ({"db"} \X SmallInstanceLists \X {"least_connections"})

\* what a probe (client.get) does: it answers with a status code or it raises
StatusCodes == {200, 204, 500}
Answer(status_code) == [raised |-> FALSE, status_code |-> status_code]
ProbeRaises == [raised |-> TRUE, status_code |-> 0]
ProbeOutcomes == {Answer(c) : c \in StatusCodes} \cup {ProbeRaises}
\* the probes of the runs that mix health checks with the other calls
FewProbeOutcomes == {Answer(200), ProbeRaises}

Range(seq) == {seq[i] : i \in 1..Len(seq)}

RECURSIVE SumOver(_, _)
\* the sum of the values of a dict over the keys S
SumOver(d, S) ==
    IF S = {} THEN 0
    ELSE LET k == CHOOSE x \in S : TRUE IN d[k] + SumOver(d, S \ {k})

\* {instance: 0 for instance in instances}
zero_counts(instances) == [i \in Range(instances) |-> 0]

\* a registration whose instances start unhealthy
registration_unhealthy(instances, algorithm) ==
    [instances |-> instances,
     algorithm |-> algorithm,
     current_index |-> 0,
     health_status |-> [i \in Range(instances) |-> FALSE]]

\* the dict register_service stores in self.services
registration(instances, algorithm) ==
    [instances |-> instances,
     algorithm |-> algorithm,
     current_index |-> 0,
     health_status |-> [i \in Range(instances) |-> TRUE]]

\* the record of a LoadBalancer call: its arguments, what it returned and
\* whether it raised
LBCall(op, service_name, arg, returned, raised) ==
    [op |-> op, service_name |-> service_name, arg |-> arg, returned |-> returned,
     raised |-> raised]

\* the arguments of a call and what it found: the instance released or probed,
\* the instance list registered, whether the name was registered before and with
\* which list, the outcomes of the probes of a pass, whether the pass wrote into
\* a replaced registration
NoArg == [instance |-> None, instances |-> <<>>, known |-> FALSE, prior |-> <<>>,
          log |-> <<>>, stale |-> FALSE]

LBNoCall == LBCall("", "", NoArg, None, FALSE)

\* no health_check is in flight
HCIdle == [service_name |-> "", instances |-> <<>>, pos |-> 0, stale |-> FALSE,
           log |-> <<>>]

\* a health_check that goes on writing into services[service_name]
stale_never(service_name) == hc

\* a registration of service_name replaces the dict a suspended health_check of
\* that service holds: its later writes go to the replaced dict
stale_after(service_name) ==
    IF hc # HCIdle /\ hc.service_name = service_name THEN [hc EXCEPT !.stale = TRUE]
    ELSE hc

\* load_balancer.register_service(...) as a caller sees it
load_balancer_register_service(service_name, instances, algorithm) ==
    /\ services' = dict_put(services, service_name, registration(instances, algorithm))
    /\ active_connections' =
           dict_put(active_connections, service_name, zero_counts(instances))
    /\ lb_calls' = dict_put(lb_calls, service_name, <<>>)
    /\ hc' = stale_after(service_name)
    /\ lb_result' = LBCall("register_service", service_name,
                           [NoArg EXCEPT !.instances = instances,
                                         !.known = service_name \in DOMAIN services,
                                         !.prior = IF service_name \in DOMAIN services
                                                   THEN services[service_name].instances
                                                   ELSE <<>>],
                           None, FALSE)
    /\ UNCHANGED <<clock_vars, rl_vars, cache_vars>>
    /\ UNCHANGED <<side_vars, http_result>>

register_service(service_name, instances, algorithm) ==
    load_balancer_register_service(service_name, instances, algorithm) /\ UNCHANGED twin

\* (current_index + 1) without the wrap
next_index_unwrapped(current_index, n) == IF current_index + 1 < n THEN current_index + 1
                                          ELSE current_index

\* (service["current_index"] + 1) % len(instances)
next_index(current_index, n) == (current_index + 1) % n

\* the last instance with the fewest active connections
min_instance_last(instances, counts) ==
    LET least == CHOOSE c \in {counts[i] : i \in Range(instances)} :
                     \A i \in Range(instances) : c <= counts[i]
        at == CHOOSE p \in 1..Len(instances) :
                  /\ counts[instances[p]] = least
                  /\ \A q \in (p + 1)..Len(instances) : counts[instances[q]] # least
    IN  instances[at]

\* min(active_connections[service_name], key=active_connections[service_name].get):
\* the dict iterates in insertion order, the order of the registered list; min
\* returns the first key with the smallest count
min_instance(instances, counts) ==
    LET least == CHOOSE c \in {counts[i] : i \in Range(instances)} :
                     \A i \in Range(instances) : c <= counts[i]
        at == CHOOSE p \in 1..Len(instances) :
                  /\ counts[instances[p]] = least
                  /\ \A q \in 1..(p - 1) : counts[instances[q]] # least
    IN  instances[at]

\* every count incremented
bump_all(counts, instance) == [i \in DOMAIN counts |-> counts[i] + 1]

\* self.active_connections[service_name][instance] += 1
bump(counts, instance) == [counts EXCEPT ![instance] = @ + 1]

\* a selection that routes to the first healthy instance
select_healthy(service, counts) ==
    LET healthy == SelectSeq(service.instances, LAMBDA i : service.health_status[i])
    IN  [instance |-> IF healthy = <<>> THEN service.instances[1] ELSE healthy[1],
         current_index |-> service.current_index]

\* the instance get_next_instance selects for a service with instances, and the
\* cursor it leaves
select(service, counts) ==
    IF service.algorithm = "round_robin"
    THEN [instance |-> service.instances[service.current_index + 1],
          current_index |-> next_index(service.current_index, Len(service.instances))]
    ELSE IF service.algorithm = "least_connections"
    THEN [instance |-> min_instance(service.instances, counts),
          current_index |-> service.current_index]
    ELSE [instance |-> service.instances[1], current_index |-> service.current_index]

\* history: the get_next_instance calls since the registrations in force
TotalCalls == SumOver([s \in DOMAIN lb_calls |-> Len(lb_calls[s])], DOMAIN lb_calls)

\* load_balancer.get_next_instance(service_name) as a caller sees it
load_balancer_get_next_instance(service_name) ==
    /\ IF service_name \notin DOMAIN services
       THEN /\ lb_result' = LBCall("get_next_instance", service_name, NoArg, None, FALSE)
            /\ UNCHANGED <<services, active_connections, lb_calls>>
       ELSE IF services[service_name].instances = <<>>
       THEN /\ lb_result' = LBCall("get_next_instance", service_name, NoArg, None, FALSE)
            /\ UNCHANGED <<services, active_connections, lb_calls>>
       ELSE LET service == services[service_name]
                chosen == select(service, active_connections[service_name])
            IN  /\ TotalCalls < MaxCalls
                /\ services' = [services EXCEPT
                                   ![service_name].current_index = chosen.current_index]
                /\ active_connections' =
                       [active_connections EXCEPT
                           ![service_name] = bump(@, chosen.instance)]
                /\ lb_calls' = [lb_calls EXCEPT ![service_name] = Append(@, chosen.instance)]
                /\ lb_result' = LBCall("get_next_instance", service_name, NoArg,
                                       chosen.instance, FALSE)
    /\ UNCHANGED <<hc, clock_vars, rl_vars, cache_vars>>
    /\ UNCHANGED side_vars

get_next_instance(service_name) ==
    load_balancer_get_next_instance(service_name) /\ UNCHANGED <<twin, http_result>>

\* the second argument, whatever the first
max_unfloored(a, b) == b

\* max(a, b)
max(a, b) == IF a >= b THEN a ELSE b

\* load_balancer.release_instance(service_name, instance) as a caller sees it
load_balancer_release_instance(service_name, instance) ==
    /\ IF /\ service_name \in DOMAIN active_connections
          /\ instance \in DOMAIN active_connections[service_name]
       THEN active_connections' =
                [active_connections EXCEPT
                    ![service_name][instance] = max(0, @ - 1)]
       ELSE UNCHANGED active_connections
    /\ lb_result' = LBCall("release_instance", service_name,
                           [NoArg EXCEPT !.instance = instance], None, FALSE)
    /\ UNCHANGED <<services, lb_calls, hc, clock_vars, rl_vars, cache_vars>>
    /\ UNCHANGED <<side_vars, http_result>>

release_instance(service_name, instance) ==
    load_balancer_release_instance(service_name, instance) /\ UNCHANGED twin

\* The same three methods on a second LoadBalancer object lb, a record of its
\* services and active_connections: the object after the call (and what
\* get_next_instance returned).
on_register_service(lb, service_name, instances, algorithm) ==
    [services |-> dict_put(lb.services, service_name,
                           registration(instances, algorithm)),
     active_connections |-> dict_put(lb.active_connections, service_name,
                                     zero_counts(instances))]

on_get_next_instance(lb, service_name) ==
    IF service_name \notin DOMAIN lb.services
    THEN [returned |-> None, lb |-> lb]
    ELSE IF lb.services[service_name].instances = <<>>
    THEN [returned |-> None, lb |-> lb]
    ELSE LET chosen == select(lb.services[service_name],
                              lb.active_connections[service_name])
         IN  [returned |-> chosen.instance,
              lb |-> [services |->
                          [lb.services EXCEPT
                              ![service_name].current_index = chosen.current_index],
                      active_connections |->
                          [lb.active_connections EXCEPT
                              ![service_name] = bump(@, chosen.instance)]]]

on_release_instance(lb, service_name, instance) ==
    IF /\ service_name \in DOMAIN lb.active_connections
       /\ instance \in DOMAIN lb.active_connections[service_name]
    THEN [lb EXCEPT !.active_connections[service_name][instance] = max(0, @ - 1)]
    ELSE lb

\* a probe whose exception is not caught
probe_unguarded(outcome) ==
    IF outcome.raised THEN [healthy |-> FALSE, raised |-> TRUE]
    ELSE [healthy |-> outcome.status_code = 200, raised |-> FALSE]

\* try: ... health_status[instance] = resp.status_code == 200
\* except Exception: health_status[instance] = False
probe(outcome) ==
    IF outcome.raised THEN [healthy |-> FALSE, raised |-> FALSE]
    ELSE [healthy |-> outcome.status_code = 200, raised |-> FALSE]

\* health_check up to its first suspension: an unknown service returns at once,
\* an empty instance list ends the loop at once, otherwise the coroutine holds
\* the service dict and awaits the probe of the first instance
HealthCheckStart(service_name) ==
    /\ hc = HCIdle
    /\ IF service_name \notin DOMAIN services
       THEN /\ hc' = HCIdle
            /\ lb_result' = LBCall("health_check", service_name,
                                   NoArg, None, FALSE)
       ELSE IF services[service_name].instances = <<>>
       THEN /\ hc' = HCIdle
            /\ lb_result' = LBCall("health_check", service_name,
                                   NoArg, None, FALSE)
       ELSE /\ hc' = [service_name |-> service_name,
                      instances |-> services[service_name].instances,
                      pos |-> 0, stale |-> FALSE, log |-> <<>>]
            /\ lb_result' = LBCall("health_check_start", service_name, NoArg, None, FALSE)
    /\ UNCHANGED <<services, active_connections, lb_calls, clock_vars, rl_vars, cache_vars>>
    /\ UNCHANGED <<side_vars, twin, http_result>>

\* the awaited probe ends with outcome: the result is written into the dict the
\* coroutine holds, then the loop awaits the next probe or health_check returns
HealthCheckProbe(outcome) ==
    /\ hc # HCIdle
    /\ LET instance == hc.instances[hc.pos + 1]
           result == probe(outcome)
           log == Append(hc.log, outcome)
           last == hc.pos + 1 = Len(hc.instances)
       IN  /\ services' = IF hc.stale THEN services
                          ELSE [services EXCEPT
                                   ![hc.service_name].health_status =
                                       dict_put(@, instance, result.healthy)]
           /\ IF result.raised
              THEN /\ hc' = HCIdle
                   /\ lb_result' = LBCall("health_check", hc.service_name,
                                          [NoArg EXCEPT !.log = log, !.stale = hc.stale],
                                          None, TRUE)
              ELSE IF last
              THEN /\ hc' = HCIdle
                   /\ lb_result' = LBCall("health_check", hc.service_name,
                                          [NoArg EXCEPT !.log = log, !.stale = hc.stale],
                                          None, FALSE)
              ELSE /\ hc' = [hc EXCEPT !.pos = @ + 1, !.log = log]
                   /\ lb_result' = LBCall("probe", hc.service_name,
                                          [NoArg EXCEPT !.instance = instance],
                                          None, FALSE)
    /\ UNCHANGED <<active_connections, lb_calls, clock_vars, rl_vars, cache_vars>>
    /\ UNCHANGED <<side_vars, twin, http_result>>

(***************************************************************************)
(* check_rate_limit as a coroutine: it is suspended at each await of a     *)
(* store call, and other calls run in between.  rl_procs holds the calls   *)
(* in flight with their position and their local variables.                *)
(***************************************************************************)
\* the requests that may be in flight together
Procs == {1, 2}
ConcurrentClients == {"10.0.0.1"}
ConcurrentEndpoints == {"/auth/reset-password"}
ConcurrentAdvances == {1, 3600}

\* the local variables of a call suspended before the step pc
Frame(pc, ip_address, endpoint, current_count) ==
    [pc |-> pc, ip_address |-> ip_address, endpoint |-> endpoint,
     current_count |-> current_count]

\* a request arrives: the call runs up to the answer of is_ip_blocked (the
\* lookup and the removal of an expired block)
check_rate_limit_lookup(p, client, endpoint) ==
    LET ip_address == client_host(client)
        chk == is_ip_blocked(ip_blocklist, ip_address, {})
    IN  /\ p \notin DOMAIN rl_procs
        /\ BagCardinality(rate_limits) + Cardinality(DOMAIN rl_procs) < MaxRecords
        /\ ip_blocklist' = chk.blocklist
        /\ IF chk.blocked
           THEN \* raise HTTPException(429, "IP address blocked")
                /\ rl_result' = [ip |-> ip_address, endpoint |-> endpoint, fails |-> {},
                                 returned |-> FALSE, detail |-> "IP address blocked",
                                 current_count |-> 0 - 1]
                /\ UNCHANGED rl_procs
           ELSE /\ rl_procs' = dict_put(rl_procs, p,
                                        Frame("get_rate_limit_count", ip_address,
                                              endpoint, 0 - 1))
                /\ UNCHANGED rl_result
        /\ UNCHANGED <<rate_limits, rl_exceeded>>
        /\ UNCHANGED <<clock_vars, tz_offset, cache_vars, lb_vars>>
        /\ UNCHANGED <<wh_vars, ws_vars, twin, http_result>>

\* the call resumes: window_start is computed and get_rate_limit_count reads
\* the rows of the window
check_rate_limit_count(p) ==
    /\ p \in DOMAIN rl_procs
    /\ rl_procs[p].pc = "get_rate_limit_count"
    /\ LET f == rl_procs[p]
           window_start == localnow - rate_limit_for(f.endpoint).window
           current_count == get_rate_limit_count(rate_limits, f.ip_address,
                                                 f.endpoint, window_start, {})
       IN  rl_procs' = dict_put(rl_procs, p,
                                Frame("decide", f.ip_address, f.endpoint, current_count))
    /\ UNCHANGED <<ip_blocklist, rate_limits, rl_result, rl_exceeded>>
    /\ UNCHANGED <<clock_vars, tz_offset, cache_vars, lb_vars>>
    /\ UNCHANGED <<wh_vars, ws_vars, twin, http_result>>

\* the call resumes with the count it read: block_ip and 429, or
\* increment_rate_limit and True
check_rate_limit_decide(p) ==
    /\ p \in DOMAIN rl_procs
    /\ rl_procs[p].pc = "decide"
    /\ LET f == rl_procs[p]
           call == [ip |-> f.ip_address, endpoint |-> f.endpoint, fails |-> {}]
       IN  IF f.current_count >= rate_limit_for(f.endpoint).requests
           THEN /\ ip_blocklist' =
                       block_ip(ip_blocklist, f.ip_address, "rate_limit_exceeded", {})
                /\ rl_result' = call @@ [returned |-> FALSE,
                                         detail |-> "Rate limit exceeded",
                                         current_count |-> f.current_count]
                /\ rl_exceeded' = {x \in rl_exceeded : x.ip # f.ip_address} \cup
                                      {[ip |-> f.ip_address, endpoint |-> f.endpoint,
                                        at |-> now]}
                /\ UNCHANGED rate_limits
           ELSE /\ rate_limits' =
                       increment_rate_limit(rate_limits, f.ip_address, f.endpoint, {})
                /\ rl_result' = call @@ [returned |-> TRUE, detail |-> "",
                                         current_count |-> f.current_count]
                /\ UNCHANGED <<ip_blocklist, rl_exceeded>>
    /\ rl_procs' = dict_pop(rl_procs, p)
    /\ UNCHANGED <<clock_vars, tz_offset, cache_vars, lb_vars>>
    /\ UNCHANGED <<wh_vars, ws_vars, twin, http_result>>

(***************************************************************************)
(* The HTTP handlers of the cache and of the load balancer.                *)
(***************************************************************************)
\* the response of a handler: the route, its path parameter, the status and
\* the detail of the error
Response(route, arg, status_code, detail) ==
    [route |-> route, arg |-> arg, status_code |-> status_code, detail |-> detail]
NoResponse == Response("", <<>>, 0, <<>>)

\* HTTPException(status_code=..., detail=...)
HTTPException(status_code, detail) == [status_code |-> status_code, detail |-> detail]

\* what leaves a handler whose body raised exc inside
\*   try: ... except Exception as e: raise HTTPException(500, f"{prefix}{str(e)}")
\* HTTPException is an Exception, so the clause catches it as well
except_Exception(prefix, exc) == HTTPException(500, <<prefix>> \o exc.detail)

\* GET /cache/get/{key}
get_cache(key) ==
    /\ cache_manager_get(key, FALSE)
    /\ http_result' =
           IF cache_get(key, FALSE).value = None
           THEN LET e == except_Exception("Failed to get cache: ",
                                          HTTPException(404, <<"Key not found in cache">>))
                IN  Response("/cache/get/{key}", key, e.status_code, e.detail)
           ELSE Response("/cache/get/{key}", key, 200, <<>>)

\* GET /loadbalancer/instance/{service_name}
get_load_balancer_instance(service_name) ==
    /\ load_balancer_get_next_instance(service_name)
    /\ UNCHANGED twin
    /\ LET instance == on_get_next_instance(
                           [services |-> services,
                            active_connections |-> active_connections],
                           service_name).returned
           route == "/loadbalancer/instance/{service_name}"
       IN  http_result' =
               IF instance = None
               THEN LET e == except_Exception(
                                 "Failed to get instance: ",
                                 HTTPException(404, <<"Service not found or no instances available">>))
                    IN  Response(route, <<service_name>>, e.status_code, e.detail)
               ELSE Response(route, <<service_name>>, 200, <<>>)

(***************************************************************************)
(* The connection manager of the collaboration WebSockets.                 *)
(***************************************************************************)
WebSockets == {"a", "b", "c"}
Workspaces == {"w1", "w2"}

\* list.remove(x): the list without the first occurrence of x
list_remove(list, x) ==
    IF x \notin Range(list) THEN list
    ELSE LET i == CHOOSE i \in 1..Len(list) :
                      list[i] = x /\ \A j \in 1..(i - 1) : list[j] # x
         IN  SubSeq(list, 1, i - 1) \o SubSeq(list, i + 1, Len(list))

\* what a broadcast leaves behind: the list it started on, the connections
\* whose send_text raises, those send_text was awaited on and those it
\* succeeded on
Broadcast(workspace_id, before, broken, attempted, sent) ==
    [workspace_id |-> workspace_id, before |-> before, broken |-> broken,
     attempted |-> attempted, sent |-> sent]
NoBroadcast == Broadcast("", <<>>, {}, <<>>, <<>>)

\* ConnectionManager.connect: a new socket is accepted and appended
connect(websocket, workspace_id) ==
    /\ \A w \in DOMAIN connections : websocket \notin Range(connections[w])
    /\ connections' =
           dict_put(connections, workspace_id,
                    Append(IF workspace_id \in DOMAIN connections
                           THEN connections[workspace_id] ELSE <<>>,
                           websocket))
    /\ broadcast' = NoBroadcast
    /\ UNCHANGED <<clock_vars, rl_vars, cache_vars, lb_vars>>
    /\ UNCHANGED <<rl_procs, wh_vars, twin, http_result>>

\* ConnectionManager.disconnect: the socket leaves the list and the key of an
\* empty list is deleted; list.remove of a socket that is not in the list
\* raises ValueError and changes nothing
disconnect(websocket, workspace_id) ==
    /\ connections' =
           IF workspace_id \notin DOMAIN connections THEN connections
           ELSE IF websocket \notin Range(connections[workspace_id]) THEN connections
           ELSE LET rest == list_remove(connections[workspace_id], websocket)
                IN  IF rest = <<>> THEN dict_pop(connections, workspace_id)
                    ELSE dict_put(connections, workspace_id, rest)
    /\ broadcast' = NoBroadcast
    /\ UNCHANGED <<clock_vars, rl_vars, cache_vars, lb_vars>>
    /\ UNCHANGED <<rl_procs, wh_vars, twin, http_result>>

RECURSIVE broadcast_loop(_, _, _, _, _)
\* for connection in self.active_connections[workspace_id]: the iterator keeps
\* an index into the live list and stops when the index is past its end; a
\* remove during the loop moves the later elements one place down
broadcast_loop(list, i, broken, attempted, sent) ==
    IF i > Len(list) THEN [list |-> list, attempted |-> attempted, sent |-> sent]
    ELSE LET connection == list[i]
         IN  IF connection \in broken
             THEN broadcast_loop(list_remove(list, connection), i + 1, broken,
                                 Append(attempted, connection), sent)
             ELSE broadcast_loop(list, i + 1, broken,
                                 Append(attempted, connection),
                                 Append(sent, connection))

\* ConnectionManager.broadcast_to_workspace
broadcast_to_workspace(workspace_id, broken) ==
    /\ IF workspace_id \in DOMAIN connections
       THEN LET before == connections[workspace_id]
                done == broadcast_loop(before, 1, broken, <<>>, <<>>)
            IN  /\ connections' = dict_put(connections, workspace_id, done.list)
                /\ broadcast' = Broadcast(workspace_id, before,
                                          broken \cap Range(before),
                                          done.attempted, done.sent)
       ELSE /\ connections' = connections
            /\ broadcast' = Broadcast(workspace_id, <<>>, {}, <<>>, <<>>)
    /\ UNCHANGED <<clock_vars, rl_vars, cache_vars, lb_vars>>
    /\ UNCHANGED <<rl_procs, wh_vars, twin, http_result>>

(***************************************************************************)
(* Webhook deliveries and their retries.                                   *)
(***************************************************************************)
\* the rows the webhook_events table may hold in a run
MaxEvents == 5
WebhookIds == {"h1"}
\* WebhookConfig.retry_count: 3 unless the user sets another value
RetryCounts == {1, 3}
\* what client.post does: it answers with a status code or raises
Deliveries == {Answer(202), Answer(500), ProbeRaises}
RetryDeliveries == {Answer(200), Answer(500)}

\* the status the event row ends with: "sent" for 200, 201 and 202, "failed"
\* for every other answer and for an exception
delivery_status(outcome) ==
    IF ~outcome.raised /\ outcome.status_code \in {200, 201, 202}
    THEN "sent" ELSE "failed"

\* the row send_webhook_notification inserts (status "pending", retry_count 0)
\* and then updates with the outcome of the delivery
webhook_event(id, webhook_config, outcome) ==
    [id |-> id, webhook_id |-> webhook_config.id,
     status |-> delivery_status(outcome), retry_count |-> 0]

\* send_webhook_notification: a row with a fresh id is added to the table
send_webhook_notification(events, webhook_config, outcome) ==
    events \cup {webhook_event(Cardinality(events) + 1, webhook_config, outcome)}

\* POST /webhooks
create_webhook(id, retry_count) ==
    /\ \A c \in webhook_configs : c.id # id
    /\ webhook_configs' = webhook_configs \cup {[id |-> id, retry_count |-> retry_count]}
    /\ UNCHANGED <<webhook_events, wh_resent>>
    /\ UNCHANGED <<clock_vars, rl_vars, cache_vars, lb_vars>>
    /\ UNCHANGED <<rl_procs, ws_vars, twin, http_result>>

\* trigger_webhook_event: one delivery to the configured webhook
trigger_webhook_event(webhook_config, outcome) ==
    /\ Cardinality(webhook_events) < MaxEvents
    /\ webhook_events' = send_webhook_notification(webhook_events, webhook_config, outcome)
    /\ UNCHANGED <<webhook_configs, wh_resent>>
    /\ UNCHANGED <<clock_vars, rl_vars, cache_vars, lb_vars>>
    /\ UNCHANGED <<rl_procs, ws_vars, twin, http_result>>

\* the rows of a run of retry_failed_webhooks that are sent again: status
\* "failed", the webhook still configured, retry_count below the webhook's
retried(events, configs) ==
    {event \in events :
        /\ event.status = "failed"
        /\ \E c \in configs : c.id = event.webhook_id /\ event.retry_count < c.retry_count}

\* retry_failed_webhooks: every selected row is sent again by
\* send_webhook_notification, which adds a row of its own; the selected row is
\* not written
retry_failed_webhooks(outcomes) ==
    LET again == retried(webhook_events, webhook_configs)
        n == Cardinality(webhook_events)
        config(event) == CHOOSE c \in webhook_configs : c.id = event.webhook_id
        place(event) == Cardinality({f \in again : f.id <= event.id})
    IN  /\ n + Cardinality(again) <= MaxEvents
        /\ DOMAIN outcomes = {event.id : event \in again}
        /\ webhook_events' =
               webhook_events \cup
               {webhook_event(n + place(event), config(event), outcomes[event.id]) :
                    event \in again}
        /\ wh_resent' =
               [id \in DOMAIN wh_resent \cup {event.id : event \in again} |->
                   (IF id \in DOMAIN wh_resent THEN wh_resent[id] ELSE 0)
                   + (IF \E event \in again : event.id = id THEN 1 ELSE 0)]
        /\ UNCHANGED webhook_configs
        /\ UNCHANGED <<clock_vars, rl_vars, cache_vars, lb_vars>>
        /\ UNCHANGED <<rl_procs, ws_vars, twin, http_result>>

\* nothing has happened in the components a run leaves alone
SideIdle ==
    /\ rl_procs = EmptyDict
    /\ twin = [services |-> EmptyDict, active_connections |-> EmptyDict]
    /\ http_result = NoResponse
    /\ webhook_configs = {}
    /\ webhook_events = {}
    /\ wh_resent = EmptyDict
    /\ connections = EmptyDict
    /\ broadcast = NoBroadcast

LBIdle ==
    /\ services = EmptyDict
    /\ active_connections = EmptyDict
    /\ lb_calls = EmptyDict
    /\ hc = HCIdle
    /\ lb_result = LBNoCall

\* the clock advances by d seconds; the latest call is no longer the current one
AdvanceClock(d) ==
    /\ ticks < MaxTicks
    /\ now' = now + d
    /\ ticks' = ticks + 1
    /\ rl_result' = NoCall
    /\ cache_result' = NoOp
    /\ UNCHANGED <<tz_offset, ip_blocklist, rate_limits, rl_exceeded>>
    /\ UNCHANGED <<iron_available, memory_cache, key_registry, iron_store, cache_sets>>
    /\ UNCHANGED lb_vars
    /\ UNCHANGED <<side_vars, twin, http_result>>


RLIdle ==
    /\ ip_blocklist = {}
    /\ rate_limits = EmptyBag
    /\ rl_result = NoCall
    /\ rl_exceeded = {}

CacheIdle ==
    /\ memory_cache = EmptyDict
    /\ key_registry = {}
    /\ iron_store = EmptyDict
    /\ cache_result = NoOp
    /\ cache_sets = {}

(***************************************************************************)
(* The rate limiter.                                                       *)
(***************************************************************************)
Init ==
    /\ now = 0
    /\ ticks = 0
    /\ tz_offset \in TzOffsets
    /\ RLIdle
    /\ iron_available = FALSE
    /\ CacheIdle
    /\ LBIdle
    /\ SideIdle

\* the rate limiter with the store available
CheckAvailable == \E c \in Clients, e \in Endpoints : check_rate_limit(c, e, {})
\* the rate limiter during outages of the store
CheckFaulty ==
    \E c \in OutageClients, e \in Endpoints, f \in FailureModes : check_rate_limit(c, e, f)
RLTick == \E d \in RLAdvances : AdvanceClock(d)

Next == CheckAvailable \/ RLTick
Spec == Init /\ [][Next]_vars

NextFaulty == CheckFaulty \/ RLTick
SpecFaulty == Init /\ [][NextFaulty]_vars

(***************************************************************************)
(* Claims about the rate limiter.                                          *)
(***************************************************************************)
\* a check_rate_limit call has just been made
Called == rl_result.ip # ""

\* the rows of (ip, endpoint) that are less than the endpoint's window old:
\* with the store available, the requests allowed inside the trailing window
RequestsInWindow(ip, endpoint) ==
    SumCount({r \in BagToSet(rate_limits) :
                 /\ r.ip_address = ip
                 /\ r.endpoint = endpoint
                 /\ now - r.created_at < rate_limit_for(endpoint).window}, rate_limits)

\* the ip has made requests on this endpoint only
OnlyEndpointUsed(ip, endpoint) ==
    /\ \A r \in BagToSet(rate_limits) : r.ip_address = ip => r.endpoint = endpoint
    /\ \A x \in rl_exceeded : x.ip = ip => x.endpoint = endpoint

\* C1: an ip that uses one endpoint with policy (N, W): a call is allowed
\* exactly when fewer than N requests of the pair were allowed in the W seconds
\* before it (the first N in a window allowed, the next rejected, and allowed
\* again once W seconds have elapsed since those requests)
C1_RateLimiterBoundary ==
    (Called /\ OnlyEndpointUsed(rl_result.ip, rl_result.endpoint)) =>
        LET prior == RequestsInWindow(rl_result.ip, rl_result.endpoint)
                        - (IF rl_result.returned THEN 1 ELSE 0)
        IN  rl_result.returned <=> prior < rate_limit_for(rl_result.endpoint).requests

\* C2: after a rejection for exceeding the limit, the ip has a block lasting
\* ip_block_duration from that rejection, and until it ends every call of the
\* ip, on any endpoint, is rejected
C2_Escalation ==
    \A x \in rl_exceeded :
        now < x.at + ip_block_duration =>
            /\ \E b \in ip_blocklist :
                   b.ip_address = x.ip /\ b.blocked_until = x.at + ip_block_duration
            /\ (Called /\ rl_result.ip = x.ip) => ~rl_result.returned

\* C2 witness: a call on another endpoint, on which the ip has no request at
\* all, is rejected during the block
C2_Witness ==
    \E x \in rl_exceeded :
        /\ rl_result.ip = x.ip
        /\ rl_result.endpoint # x.endpoint
        /\ now > x.at
        /\ rl_result.detail = "IP address blocked"
        /\ RequestsInWindow(rl_result.ip, rl_result.endpoint) = 0

\* C3: a call of an ip with an unexpired block is rejected with 'IP address
\* blocked', adds no rate_limits row and leaves the block table as it is
C3_BlockedBeforeAccounting ==
    [][\A b \in ip_blocklist :
          (b.blocked_until > now /\ now' = now /\ rl_result'.ip = b.ip_address) =>
              /\ ~rl_result'.returned
              /\ rl_result'.detail = "IP address blocked"
              /\ rl_result'.detail # "Rate limit exceeded"
              /\ rate_limits' = rate_limits
              /\ ip_blocklist' = ip_blocklist]_vars

\* C3 witness: a blocked call one second before the block ends
C3_Witness ==
    /\ rl_result.detail = "IP address blocked"
    /\ \E b \in ip_blocklist :
           b.ip_address = rl_result.ip /\ b.blocked_until = now + 1

\* C4: a call during which every store call raises returns True
C4_FailOpen == (Called /\ rl_result.fails = StoreCalls) => rl_result.returned

\* C4 witness: the call is allowed although the ip is blocked and the pair has
\* reached its limit
C4_Witness ==
    /\ Called
    /\ rl_result.fails = StoreCalls
    /\ rl_result.returned
    /\ \E b \in ip_blocklist : b.ip_address = rl_result.ip /\ b.blocked_until > now
    /\ RequestsInWindow(rl_result.ip, rl_result.endpoint)
           >= rate_limit_for(rl_result.endpoint).requests

\* C5: a block row goes away or changes only once it has expired; the first
\* call of the ip after the expiry deletes the row, reads a count of zero and is
\* allowed
C5_BlockLeftByExpiry ==
    [][\A b \in ip_blocklist :
          /\ b \notin ip_blocklist' => b.blocked_until <= now
          /\ (b.blocked_until <= now /\ now' = now /\ rl_result'.ip = b.ip_address) =>
                /\ blocklist_rows(ip_blocklist', b.ip_address) = {}
                /\ rl_result'.returned
                /\ rl_result'.current_count = 0]_vars

\* C5 witness: the pair that was throttled is allowed again after the block,
\* its earlier rows still in the table
C5_Witness ==
    \E x \in rl_exceeded :
        /\ rl_result.ip = x.ip
        /\ rl_result.endpoint = x.endpoint
        /\ now >= x.at + ip_block_duration
        /\ rl_result.returned
        /\ rl_result.current_count = 0
        /\ blocklist_rows(ip_blocklist, x.ip) = {}
        /\ BagCardinality(rate_limits) > rate_limit_for(x.endpoint).requests

(***************************************************************************)
(* The cache manager with the in-process store.                            *)
(***************************************************************************)
InitCache ==
    /\ now = 0
    /\ ticks = 0
    /\ tz_offset = 0
    /\ RLIdle
    /\ iron_available = FALSE
    /\ CacheIdle
    /\ LBIdle
    /\ SideIdle

Get == \E k \in Keys : CacheGet(k, FALSE)
Set == \E k \in Keys, v \in Values, ttl \in TTLs : CacheSet(k, v, ttl, FALSE)
Delete == \E k \in Keys : CacheDelete(k, FALSE)
InvalidateByTag == \E t \in Tags, keys \in list_keys : CacheInvalidate(t, keys, 0)
ClearAll == \E keys \in list_keys : CacheClearAll(keys, 0)
CacheTick == \E d \in CacheAdvances : AdvanceClock(d)

NextCache == Get \/ Set \/ Delete \/ InvalidateByTag \/ ClearAll \/ CacheTick
SpecCache == InitCache /\ [][NextCache]_vars

(***************************************************************************)
(* The cache manager with either backing store, calls to the external      *)
(* service raising or not.                                                 *)
(***************************************************************************)
InitCacheFaulty ==
    /\ now = 0
    /\ ticks = 0
    /\ tz_offset = 0
    /\ RLIdle
    /\ iron_available \in BOOLEAN
    /\ CacheIdle
    /\ LBIdle
    /\ SideIdle

GetFaulty == \E k \in Keys, fail \in BOOLEAN : CacheGet(k, fail)
SetFaulty ==
    \E k \in Keys, v \in OutageValues, ttl \in OutageTTLs, fail \in BOOLEAN :
        CacheSet(k, v, ttl, fail)
DeleteFaulty == \E k \in Keys, fail \in BOOLEAN : CacheDelete(k, fail)
InvalidateByTagFaulty ==
    \E t \in Tags, keys \in list_keys :
        \E failAt \in 0..Len(tagged(keys, t)) : CacheInvalidate(t, keys, failAt)
ClearAllFaulty ==
    \E keys \in list_keys : \E failAt \in 0..Len(keys) : CacheClearAll(keys, failAt)

NextCacheFaulty ==
    GetFaulty \/ SetFaulty \/ DeleteFaulty \/ InvalidateByTagFaulty \/ ClearAllFaulty
        \/ CacheTick
SpecCacheFaulty == InitCacheFaulty /\ [][NextCacheFaulty]_vars

(***************************************************************************)
(* Claims about the cache manager.                                         *)
(***************************************************************************)
\* C6: in-process store: a get of a key at the instant of its latest set (ttl
\* > 0) returns the value set; a get ttl seconds or more after it returns None
C6_CacheTTL ==
    (~iron_available /\ cache_result.op = "get") =>
        \A s \in cache_sets :
            s.key = cache_result.key =>
                /\ (s.ttl > 0 /\ now = s.at) => cache_result.value = s.value
                /\ now - s.at >= s.ttl => cache_result.value = None

\* C6 witness: a get exactly ttl seconds after the set finds the key absent
C6_Witness ==
    /\ ~iron_available
    /\ cache_result.op = "get"
    /\ cache_result.value = None
    /\ \E s \in cache_sets :
           s.key = cache_result.key /\ s.ttl > 0 /\ now - s.at = s.ttl

\* the expiry of the stored entry of a key
Expiry(key) ==
    IF iron_available THEN iron_store[key].expires_at ELSE memory_cache[key].expires_at

Contains(tag, key) ==
    \E i \in 0..Len(key) : \E j \in i..Len(key) : SubSeq(key, i + 1, j) = tag

\* what the manager holds for a key: registration and stored entries
Held(key) ==
    <<key \in key_registry,
      IF key \in DOMAIN memory_cache THEN <<memory_cache[key]>> ELSE <<>>,
      IF key \in DOMAIN iron_store THEN <<iron_store[key]>> ELSE <<>> >>

\* C8: invalidate_by_tag(tag), when it returns, has made every key that
\* contains tag absent and has left every other key as it was
C8_TagInvalidation ==
    [][(cache_result'.op = "invalidate_by_tag" /\ ~cache_result'.raised) =>
          \A k \in Keys :
              IF Contains(cache_result'.key, k)
              THEN cache_get(k, FALSE)'.value = None
              ELSE Held(k)' = Held(k)]_vars

\* C8 witness: invalidate_by_tag("u1") removed "u1p" and "u1s", "u2p" is live
C8_Witness ==
    /\ cache_result.op = "invalidate_by_tag"
    /\ cache_result.key = <<"u", "1">>
    /\ cache_result.removed = {<<"u", "1", "p">>, <<"u", "1", "s">>}
    /\ cache_get(<<"u", "2", "p">>, FALSE).value # None

\* C9: get never raises; it returns None when the external service raises
\* and when the key was never set
C9_GetGraceful ==
    cache_result.op = "get" =>
        /\ ~cache_result.raised
        /\ cache_result.failed => cache_result.value = None
        /\ cache_result.key \notin key_registry => cache_result.value = None

\* C9 witness: the service raises on the get of a live key
C9_Witness ==
    /\ cache_result.op = "get"
    /\ cache_result.failed
    /\ iron_live(iron_store, cache_result.key)
    /\ cache_result.value = None
    /\ ~cache_result.raised

\* C10: no cache operation during which the external service raises raises
C10_NoFailurePropagates == cache_result.failed => ~cache_result.raised


(***************************************************************************)
(* The load balancer, one call at a time: a health_check pass runs to its  *)
(* end before the next call starts.                                        *)
(***************************************************************************)
InitLB ==
    /\ now = 0
    /\ ticks = 0
    /\ tz_offset = 0
    /\ RLIdle
    /\ iron_available = FALSE
    /\ CacheIdle
    /\ LBIdle
    /\ SideIdle

CalledNames == ServiceNames \cup {UnknownService}
\* the service names health_check is called with
CheckedNames == {"api", UnknownService}
\* the (service_name, instance) pairs release_instance is called with
Releases ==
    ({"api"} \X {"A", "B", "C", UnknownInstance}) \cup
    {<<"db", "D">>, <<UnknownService, "A">>}

Register ==
    /\ hc = HCIdle
    /\ \E r \in Registrations : register_service(r[1], r[2], r[3])
GetNextInstance ==
    /\ hc = HCIdle
    /\ \E n \in CalledNames : get_next_instance(n)
ReleaseInstance ==
    /\ hc = HCIdle
    /\ \E r \in Releases : release_instance(r[1], r[2])
HealthCheck == \E n \in CheckedNames : HealthCheckStart(n)
Probe == \E o \in FewProbeOutcomes : HealthCheckProbe(o)

NextLB == Register \/ GetNextInstance \/ ReleaseInstance \/ HealthCheck \/ Probe
SpecLB == InitLB /\ [][NextLB]_vars

\* C11: under round_robin the k-th get_next_instance call after the registration
\* of a service with n >= 1 instances returns instances[(k-1) mod n], and any n
\* consecutive calls return every instance (exactly once each)
C11_RoundRobin ==
    \A s \in DOMAIN services :
        (services[s].algorithm = "round_robin" /\ services[s].instances # <<>>) =>
            LET instances == services[s].instances
                n == Len(instances)
                returned == lb_calls[s]
            IN  /\ \A k \in 1..Len(returned) : returned[k] = instances[((k - 1) % n) + 1]
                /\ \A j \in 0..(Len(returned) - n) :
                       {returned[j + i] : i \in 1..n} = Range(instances)

\* instances [A, B, C] have yielded A, B, C, A
C11_Witness ==
    /\ "api" \in DOMAIN services
    /\ services["api"].algorithm = "round_robin"
    /\ services["api"].instances = <<"A", "B", "C">>
    /\ lb_calls["api"] = <<"A", "B", "C", "A">>
    /\ lb_result.op = "get_next_instance"
    /\ lb_result.returned = "A"

\* the step is a LoadBalancer call (or the end of a probe)
LBStep == UNCHANGED <<clock_vars, rl_vars, cache_vars>>

\* the step is a get_next_instance call on service s that selected an instance
Selected(s) ==
    /\ LBStep
    /\ s \in DOMAIN lb_calls
    /\ s \in DOMAIN lb_calls'
    /\ Len(lb_calls'[s]) = Len(lb_calls[s]) + 1

\* C12: under least_connections get_next_instance returns an instance whose
\* count is minimal over the instances of the service at the time of the call
\* (releases made before it included), the first such instance in registration
\* order, and increments the count of that instance only
C12_LeastConnections ==
    [][\A s \in DOMAIN services :
          (Selected(s) /\ services[s].algorithm = "least_connections") =>
              LET instances == services[s].instances
                  counts == active_connections[s]
                  r == lb_result'.returned
              IN  /\ \E p \in 1..Len(instances) :
                         /\ instances[p] = r
                         /\ \A q \in 1..Len(instances) : counts[r] <= counts[instances[q]]
                         /\ \A q \in 1..(p - 1) : counts[instances[q]] > counts[r]
                  /\ active_connections'[s] = [counts EXCEPT ![r] = @ + 1]]_vars

\* A and B were selected, B was released and is selected again, ahead of the
\* untouched C
C12_Witness ==
    /\ "api" \in DOMAIN services
    /\ services["api"].algorithm = "least_connections"
    /\ services["api"].instances = <<"A", "B", "C">>
    /\ lb_calls["api"] = <<"A", "B", "B">>
    /\ active_connections["api"] = [i \in {"A", "B", "C"} |-> IF i = "C" THEN 0 ELSE 1]
    /\ lb_result.op = "get_next_instance"
    /\ lb_result.returned = "B"

\* C13: every active-connection count is an integer >= 0 after every call;
\* release_instance leaves a count of 0 at 0 and decrements any other count by
\* exactly 1
C13_CountsNeverNegative ==
    [][/\ \A s \in DOMAIN active_connections' :
             \A i \in DOMAIN active_connections'[s] : active_connections'[s][i] \in Nat
       /\ \A s \in DOMAIN active_connections :
             \A i \in DOMAIN active_connections[s] :
                 (/\ LBStep
                  /\ lb_result'.op = "release_instance"
                  /\ lb_result'.service_name = s
                  /\ lb_result'.arg.instance = i) =>
                     active_connections'[s][i] =
                         IF active_connections[s][i] = 0 THEN 0
                         ELSE active_connections[s][i] - 1]_vars

\* an instance with no connection was released and its count is 0
C13_Witness ==
    /\ lb_result.op = "release_instance"
    /\ lb_result.service_name = "api"
    /\ lb_result.arg.instance = "A"
    /\ "api" \in DOMAIN active_connections
    /\ "A" \in DOMAIN active_connections["api"]
    /\ lb_calls["api"] = <<>>
    /\ active_connections["api"]["A"] = 0

(***************************************************************************)
(* Health checks of the service "api", with every kind of probe outcome.   *)
(***************************************************************************)
RegisterChecked ==
    /\ hc = HCIdle
    /\ \E instances \in InstanceLists : register_service("api", instances, "round_robin")
ProbeAny == \E o \in ProbeOutcomes : HealthCheckProbe(o)

NextHealth == RegisterChecked \/ HealthCheck \/ ProbeAny
SpecHealth == InitLB /\ [][NextHealth]_vars

\* a health_check pass over the registration in force has just ended
PassEnded(s) ==
    /\ lb_result.op = "health_check"
    /\ lb_result.service_name = s
    /\ ~lb_result.arg.stale

\* C14: a health_check pass probes every registered instance; an instance whose
\* probe raises ends unhealthy, the instances probed after it get the result of
\* their own probe (healthy on success), and health_check does not raise
C14_HealthCheckIsolation ==
    /\ lb_result.op = "health_check" => ~lb_result.raised
    /\ \A s \in DOMAIN services :
          PassEnded(s) =>
              LET instances == services[s].instances
                  log == lb_result.arg.log
              IN  /\ Len(log) = Len(instances)
                  /\ \A p \in 1..Len(instances) :
                         /\ log[p].raised => ~services[s].health_status[instances[p]]
                         /\ log[p] = Answer(200) => services[s].health_status[instances[p]]

\* the probe of B raised, the probes of A and C succeeded: only B is unhealthy
C14_Witness ==
    /\ "api" \in DOMAIN services
    /\ PassEnded("api")
    /\ services["api"].instances = <<"A", "B", "C">>
    /\ lb_result.arg.log = <<Answer(200), ProbeRaises, Answer(200)>>
    /\ services["api"].health_status =
           [i \in {"A", "B", "C"} |-> i # "B"]

\* C18: after a health_check pass an instance is healthy if and only if its
\* probe answered with a status 200..299
C18_Healthy2xx ==
    \A s \in DOMAIN services :
        PassEnded(s) =>
            \A p \in 1..Len(services[s].instances) :
                services[s].health_status[services[s].instances[p]] =
                    (/\ ~lb_result.arg.log[p].raised
                     /\ lb_result.arg.log[p].status_code \in 200..299)

\* the step is a register_service call
Registered == LBStep /\ lb_result'.op = "register_service"

\* C15: register_service with an empty instance list creates no registration
\* and leaves an existing registration as it was
C15_EmptyListRejected ==
    [][(Registered /\ lb_result'.arg.instances = <<>>) =>
           /\ services' = services
           /\ active_connections' = active_connections]_vars

\* C16: register_service with a non-empty list replaces the registration of the
\* name: cursor 0, exactly the listed instances, each healthy with 0 active
\* connections, and the registrations of the other names unchanged
C16_RegisterReplaces ==
    [][(Registered /\ lb_result'.arg.instances # <<>>) =>
           LET s == lb_result'.service_name
               instances == lb_result'.arg.instances
           IN  /\ DOMAIN services' = DOMAIN services \cup {s}
               /\ DOMAIN active_connections' = DOMAIN active_connections \cup {s}
               /\ services'[s].instances = instances
               /\ services'[s].current_index = 0
               /\ DOMAIN services'[s].health_status = Range(instances)
               /\ DOMAIN active_connections'[s] = Range(instances)
               /\ \A i \in Range(instances) :
                      /\ services'[s].health_status[i]
                      /\ active_connections'[s][i] = 0
               /\ \A o \in DOMAIN services \ {s} :
                      /\ services'[o] = services[o]
                      /\ active_connections'[o] = active_connections[o]]_vars

\* [B, A] has replaced [A, B, C] while the service "db" holds a connection
C16_Witness ==
    /\ lb_result.op = "register_service"
    /\ lb_result.service_name = "api"
    /\ lb_result.arg.known
    /\ lb_result.arg.prior = <<"A", "B", "C">>
    /\ lb_result.arg.instances = <<"B", "A">>
    /\ DOMAIN active_connections["api"] = {"A", "B"}
    /\ "db" \in DOMAIN services
    /\ lb_calls["db"] = <<"D">>
    /\ active_connections["db"]["D"] = 1

\* C17: get_next_instance returns None exactly when the name is unregistered or
\* its instance list is empty, and then changes no load-balancer state;
\* otherwise it returns a registered instance and increments the count of that
\* instance by 1, leaving all other counts unchanged
C17_GetNextInstance ==
    [][(LBStep /\ lb_result'.op = "get_next_instance") =>
           LET s == lb_result'.service_name
               r == lb_result'.returned
               none == s \notin DOMAIN services \/ services[s].instances = <<>>
           IN  /\ (r = None) <=> none
               /\ none => UNCHANGED <<services, active_connections, hc>>
               /\ ~none =>
                      /\ r \in Range(services[s].instances)
                      /\ DOMAIN active_connections' = DOMAIN active_connections
                      /\ active_connections'[s] =
                             [active_connections[s] EXCEPT ![r] = @ + 1]
                      /\ \A o \in DOMAIN active_connections \ {s} :
                             active_connections'[o] = active_connections[o]]_vars

\* a registered service without instances has answered None while another
\* service holds a connection
C17_Witness ==
    /\ lb_result.op = "get_next_instance"
    /\ lb_result.service_name = "api"
    /\ lb_result.returned = None
    /\ "api" \in DOMAIN services
    /\ services["api"].instances = <<>>
    /\ "db" \in DOMAIN services
    /\ lb_calls["db"] = <<"D">>
    /\ active_connections["db"]["D"] = 1

(***************************************************************************)
(* Callers of the cache manager and of the load balancer in one process.   *)
(***************************************************************************)
InitBoth ==
    /\ now = 0
    /\ ticks = 0
    /\ tz_offset = 0
    /\ RLIdle
    /\ iron_available \in BOOLEAN
    /\ CacheIdle
    /\ LBIdle
    /\ SideIdle

SetEntry == \E k \in Keys : CacheSet(k, "v1", 2, FALSE)
InvalidateTag == \E t \in Tags : \E keys \in list_keys : CacheInvalidate(t, keys, 0)
RegisterApi == register_service("api", <<"B", "A">>, "least_connections")
GetApi == get_next_instance("api")
Release == \E r \in Releases : release_instance(r[1], r[2])

NextBoth == SetEntry \/ InvalidateTag \/ RegisterApi \/ GetApi \/ Release
SpecBoth == InitBoth /\ [][NextBoth]_vars

\* the step is a CacheManager call
CacheStep == UNCHANGED <<clock_vars, rl_vars, lb_vars>>

\* release_instance was called for an unregistered service or for an instance
\* that is not in the service
ReleaseMisused ==
    /\ LBStep
    /\ lb_result'.op = "release_instance"
    /\ \/ lb_result'.service_name \notin DOMAIN active_connections
       \/ lb_result'.arg.instance \notin
              DOMAIN active_connections[lb_result'.service_name]

\* invalidate_by_tag was called with a tag that no registered key contains
InvalidateMisused ==
    /\ CacheStep
    /\ cache_result'.op = "invalidate_by_tag"
    /\ \A k \in key_registry : ~Contains(cache_result'.key, k)

\* C19: release_instance for an unknown service or instance, and
\* invalidate_by_tag for a tag contained in no registered key, return without
\* error and leave the load-balancer state, the cache entries and the key
\* registry unchanged
C19_MisuseIsNoOp ==
    [][/\ ReleaseMisused => ~lb_result'.raised
       /\ InvalidateMisused => ~cache_result'.raised
       /\ (ReleaseMisused \/ InvalidateMisused) =>
              UNCHANGED <<services, active_connections, hc,
                          memory_cache, key_registry, iron_store>>]_vars

\* both misuses have happened on a load balancer with a connection and a cache
\* with a registered key
C19_Witness ==
    /\ lb_result.op = "release_instance"
    /\ lb_result.service_name = "api"
    /\ lb_result.arg.instance = UnknownInstance
    /\ "api" \in DOMAIN active_connections
    /\ active_connections["api"]["B"] = 1
    /\ cache_result.op = "invalidate_by_tag"
    /\ cache_result.key = <<"p">>
    /\ cache_result.removed = {}
    /\ key_registry = {<<"u", "1", "s">>}

(***************************************************************************)
(* The cache manager with either backing store, the external service       *)
(* honouring expires_in and never failing.                                 *)
(***************************************************************************)
SetPayload == \E k \in Keys, v \in Payloads, ttl \in OutageTTLs : CacheSet(k, v, ttl, FALSE)
InvalidateAvailable == \E t \in Tags : \E keys \in list_keys : CacheInvalidate(t, keys, 0)

NextCacheModes ==
    Get \/ SetPayload \/ Delete \/ InvalidateAvailable \/ ClearAll \/ CacheTick
SpecCacheModes == InitCacheFaulty /\ [][NextCacheModes]_vars

\* what the calls made so far and the clock say get(key) returns, whatever the
\* backing store: the value of the latest set of the key, if no delete,
\* invalidate_by_tag or clear_all removed it since and its ttl has not run out
Expected(key) ==
    IF \E x \in cache_sets : x.key = key /\ now < x.at + x.ttl
    THEN (CHOOSE x \in cache_sets : x.key = key).value
    ELSE None

\* C20: every get returns the same value-or-absent result with the external
\* service as with the in-process map: the result the calls made so far
\* determine
C20_BackingStoreTransparency ==
    cache_result.op = "get" => cache_result.value = Expected(cache_result.key)

\* the step is a delete(key) call
Deleted == CacheStep /\ cache_result'.op = "delete"

\* the key has no live entry: get(key) returns None
Absent(key) == cache_get(key, FALSE).value = None

\* C21: delete(key) does not raise and leaves get(key) absent until the next
\* set(key); on a key that is absent already (never set, expired, or deleted
\* before) it changes no get result and no registered key, and nothing at all
\* if the key has no entry; the other keys stay as they were
C21_DeleteIdempotent ==
    [][/\ \A k \in Keys : (~\E x \in cache_sets' : x.key = k) => Absent(k)'
       /\ \A key \in Keys :
              (Deleted /\ cache_result'.key = key) =>
                  /\ ~cache_result'.raised
                  /\ Absent(key)'
                  /\ Absent(key) =>
                         /\ key_registry' = key_registry
                         /\ \A j \in Keys :
                                cache_get(j, FALSE)'.value = cache_get(j, FALSE).value
                  /\ KeyState(key) = <<"absent">> =>
                         UNCHANGED <<memory_cache, key_registry, iron_store>>
                  /\ \A j \in Keys \ {key} : Held(j)' = Held(j)]_vars

\* a key that was set has been deleted while another key keeps its live entry
C21_Witness ==
    /\ cache_result.op = "delete"
    /\ cache_result.key = <<"u", "1", "p">>
    /\ <<"u", "1", "p">> \in key_registry
    /\ KeyState(<<"u", "1", "p">>) = <<"absent">>
    /\ KeyState(<<"u", "1", "s">>) = <<"live", "v1">>

\* C22: after clear_all() get(k) returns absent for every key, whatever calls
\* came before, and with the in-process store no entry and no registered key
\* remains
C22_ClearAllEmpties ==
    [][(CacheStep /\ cache_result'.op = "clear_all") =>
           /\ ~cache_result'.raised
           /\ \A k \in Keys : Absent(k)'
           /\ ~iron_available => memory_cache' = EmptyDict /\ key_registry' = {}]_vars

\* clear_all has removed the two registered keys of the in-process store
C22_Witness ==
    /\ cache_result.op = "clear_all"
    /\ cache_result.removed = {<<"u", "1", "p">>, <<"u", "2", "p">>}
    /\ ~iron_available
    /\ memory_cache = EmptyDict
    /\ key_registry = {}

\* C30: with the in-process store the key registry holds exactly the keys that
\* have an entry in the map
C30_RegistryMatchesStore ==
    ~iron_available => key_registry = DOMAIN memory_cache

\* C24: every registered service has 0 <= current_index < len(instances)
C24_CursorBound ==
    \A s \in DOMAIN services :
        /\ 0 <= services[s].current_index
        /\ services[s].current_index < Len(services[s].instances)

(***************************************************************************)
(* The load balancer with calls interleaved: register_service and          *)
(* get_next_instance run while a health_check is suspended on a probe.     *)
(***************************************************************************)
RegisterDuring ==
    \E instances \in InstanceLists : register_service("api", instances, "round_robin")
GetDuring == get_next_instance("api")

NextLBConcurrent == RegisterDuring \/ GetDuring \/ HealthCheck \/ Probe
SpecLBConcurrent == InitLB /\ [][NextLBConcurrent]_vars

\* the step is the end of a probe of the suspended health_check
ProbeStep == hc # HCIdle /\ (hc' = HCIdle \/ hc'.pos # hc.pos)

\* C29: in every state the keys of health_status and of active_connections of
\* each registered service are its registered instances, and a probe of a
\* health_check that began before a re-registration of its service writes
\* nothing into the new registration
C29_MapsAligned ==
    [][/\ \A s \in DOMAIN services' :
             /\ DOMAIN services'[s].health_status = Range(services'[s].instances)
             /\ s \in DOMAIN active_connections'
             /\ DOMAIN active_connections'[s] = Range(services'[s].instances)
       /\ (ProbeStep /\ hc.stale) => services' = services]_vars

\* a pass that began on [A, B, C] has ended after the service was registered
\* again with [B, A]; its failed probes have left the new registration healthy
C29_Witness ==
    /\ lb_result.op = "health_check"
    /\ lb_result.arg.stale
    /\ lb_result.arg.log = <<Answer(200), ProbeRaises, ProbeRaises>>
    /\ services["api"].instances = <<"B", "A">>
    /\ services["api"].health_status = [i \in {"A", "B"} |-> TRUE]
    /\ lb_calls["api"] = <<"B">>

(***************************************************************************)
(* Two load balancers that receive the same register_service,              *)
(* get_next_instance and release_instance calls; only the first one runs   *)
(* health checks, the second keeps every instance healthy.                 *)
(***************************************************************************)
TwinRegistrations ==
    {"api"} \X {<<"B", "A">>, <<"A", "B", "C">>} \X {"round_robin", "least_connections"}
TwinReleases == {"api"} \X {"A", "B", "C"}

RegisterTwice ==
    /\ hc = HCIdle
    /\ \E r \in TwinRegistrations :
          /\ load_balancer_register_service(r[1], r[2], r[3])
          /\ twin' = on_register_service(twin, r[1], r[2], r[3])
GetTwice ==
    /\ hc = HCIdle
    /\ load_balancer_get_next_instance("api")
    /\ twin' = on_get_next_instance(twin, "api").lb
    /\ UNCHANGED http_result
ReleaseTwice ==
    /\ hc = HCIdle
    /\ \E r \in TwinReleases :
          /\ load_balancer_release_instance(r[1], r[2])
          /\ twin' = on_release_instance(twin, r[1], r[2])
CheckFirst == HealthCheckStart("api")

NextTwin == RegisterTwice \/ GetTwice \/ ReleaseTwice \/ CheckFirst \/ Probe
SpecTwin == InitLB /\ [][NextTwin]_vars

\* C25: two load balancers that received the same calls and differ in their
\* health_status maps return the same instance from every get_next_instance
\* call, and keep the same cursors and counts
C25_HealthNeverInfluences ==
    [][/\ (LBStep /\ lb_result'.op = "get_next_instance") =>
              lb_result'.returned =
                  on_get_next_instance(twin, lb_result'.service_name).returned
       /\ twin'.active_connections = active_connections'
       /\ DOMAIN twin'.services = DOMAIN services'
       /\ \A s \in DOMAIN services' :
              /\ twin'.services[s].instances = services'[s].instances
              /\ twin'.services[s].algorithm = services'[s].algorithm
              /\ twin'.services[s].current_index = services'[s].current_index]_vars

\* under least_connections both load balancers have returned A, which only the
\* first one has marked unhealthy
C25_Witness ==
    /\ lb_result.op = "get_next_instance"
    /\ lb_result.returned = "A"
    /\ "api" \in DOMAIN services
    /\ services["api"].algorithm = "least_connections"
    /\ services["api"].instances = <<"A", "B", "C">>
    /\ ~services["api"].health_status["A"]
    /\ twin.services["api"].health_status["A"]
    /\ lb_calls["api"] = <<"A">>

(***************************************************************************)
(* Requests to the cache and load-balancer routes (in-process store).      *)
(***************************************************************************)
HttpServices == {"api", UnknownService}
HttpInstanceLists == {<<>>, <<"B", "A">>}

RegisterHttp == \E instances \in HttpInstanceLists : register_service("api", instances, "round_robin")
GetCacheHttp == \E k \in Keys : get_cache(k)
GetInstanceHttp == \E n \in HttpServices : get_load_balancer_instance(n)

NextHttp == SetEntry \/ CacheTick \/ GetCacheHttp \/ RegisterHttp \/ GetInstanceHttp
SpecHttp == InitLB /\ [][NextHttp]_vars

\* the response in http_result is that of the get_cache call just made
CacheAnswered ==
    /\ http_result.route = "/cache/get/{key}"
    /\ cache_result.op = "get"
    /\ cache_result.key = http_result.arg

\* the response in http_result is that of the get_load_balancer_instance call
\* just made
InstanceAnswered ==
    /\ http_result.route = "/loadbalancer/instance/{service_name}"
    /\ lb_result.op = "get_next_instance"
    /\ <<lb_result.service_name>> = http_result.arg

\* C26: GET /cache/get/{key} for an absent or expired key answers 404 'Key not
\* found in cache', GET /loadbalancer/instance/{service_name} for an unknown or
\* empty service answers 404 'Service not found or no instances available';
\* neither answers with a 500-class status
C26_AbsenceIs404 ==
    /\ (CacheAnswered /\ cache_result.value = None) =>
           /\ http_result.status_code = 404
           /\ http_result.detail = <<"Key not found in cache">>
    /\ (InstanceAnswered /\ lb_result.returned = None) =>
           /\ http_result.status_code = 404
           /\ http_result.detail = <<"Service not found or no instances available">>

(***************************************************************************)
(* Sockets joining and leaving workspaces, and broadcasts to a workspace.  *)
(***************************************************************************)
Connect == \E websocket \in WebSockets, w \in Workspaces : connect(websocket, w)
Disconnect == \E websocket \in WebSockets, w \in Workspaces : disconnect(websocket, w)
BroadcastToWorkspace ==
    \E w \in Workspaces, broken \in SUBSET WebSockets : broadcast_to_workspace(w, broken)

NextWS == Connect \/ Disconnect \/ BroadcastToWorkspace
SpecWS == InitLB /\ [][NextWS]_vars

\* how many times c occurs in seq
Occurrences(seq, c) == Cardinality({i \in DOMAIN seq : seq[i] = c})

\* C28: a broadcast attempts every connection the workspace has when it
\* starts: a connection whose send succeeds gets the message exactly once, a
\* connection whose send fails is no longer in the workspace's list
C28_BroadcastReachesAll ==
    (broadcast.workspace_id \in DOMAIN connections) =>
        \A c \in Range(broadcast.before) :
            /\ Occurrences(broadcast.attempted, c) = 1
            /\ c \notin broadcast.broken => Occurrences(broadcast.sent, c) = 1
            /\ c \in broadcast.broken => c \notin Range(connections[broadcast.workspace_id])

(***************************************************************************)
(* A webhook, deliveries to it and runs of the retry task.                 *)
(***************************************************************************)
CreateWebhook == \E id \in WebhookIds, n \in RetryCounts : create_webhook(id, n)
Trigger == \E c \in webhook_configs, outcome \in Deliveries : trigger_webhook_event(c, outcome)
Retry ==
    \E ids \in SUBSET (1..MaxEvents) : \E outcomes \in [ids -> RetryDeliveries] :
        retry_failed_webhooks(outcomes)

NextWebhook == CreateWebhook \/ Trigger \/ Retry
SpecWebhook == InitLB /\ [][NextWebhook]_vars

\* C27: the runs of retry_failed_webhooks send a failed event again at most
\* retry_count times in total, retry_count being that of its webhook
C27_RetriesBounded ==
    \A event \in webhook_events :
        event.id \in DOMAIN wh_resent =>
            \A c \in webhook_configs :
                c.id = event.webhook_id => wh_resent[event.id] <= c.retry_count

(***************************************************************************)
(* Requests of one client to one endpoint whose check_rate_limit calls     *)
(* interleave at the store calls (server clock in UTC, store reachable).   *)
(***************************************************************************)
Arrive ==
    \E p \in Procs, c \in ConcurrentClients, e \in ConcurrentEndpoints :
        check_rate_limit_lookup(p, c, e)
ReadCount == \E p \in Procs : check_rate_limit_count(p)
Decide == \E p \in Procs : check_rate_limit_decide(p)
ConcurrentTick == \E d \in ConcurrentAdvances : AdvanceClock(d)

NextRLConcurrent == Arrive \/ ReadCount \/ Decide \/ ConcurrentTick
SpecRLConcurrent == InitLB /\ [][NextRLConcurrent]_vars

\* the requests of ip_address to endpoint allowed since the start of the
\* window that ends now: each allowed request left one row with count 1
AllowedInWindow(ip_address, endpoint) ==
    SumCount({r \in BagToSet(rate_limits) :
                 /\ r.ip_address = ip_address
                 /\ r.endpoint = endpoint
                 /\ r.created_at > utcnow - rate_limit_for(endpoint).window},
             rate_limits)

\* C23: whatever the interleaving of the check_rate_limit calls for one ip
\* and endpoint, the requests allowed within one window are at most the
\* endpoint's max_requests
C23_InterleavedCountBound ==
    \A ip_address \in IPs, endpoint \in ConcurrentEndpoints :
        AllowedInWindow(ip_address, endpoint) <= rate_limit_for(endpoint).requests
====
